---- MODULE Spec2Model ----
(***************************************************************************)
(* Model of pkg/uploadserver/uploadserver.go: the upload session flags of  *)
(* uploadServerApp, the request handlers that funnel into                  *)
(* validateShouldHandleRequest, the background goroutine of the async      *)
(* handler, and the select loop of Run.                                    *)
(*                                                                         *)
(* Every handler runs on its own goroutine.  An action is one stretch of   *)
(* a goroutine between two points where other goroutines can interleave    *)
(* observably: a critical section of app.mutex, a call of the external     *)
(* processor, a rendezvous on the unbuffered errChan, a close of doneChan. *)
(* Requests may be served before Run is called and after it returned,      *)
(* because ServeHTTP is an exported method of the app.                     *)
(***************************************************************************)
EXTENDS Integers, Sequences, FiniteSets, TLC

\* Bounds of the model.
NumReq == 2
MaxParts == 2
MaxEntries == 3
MaxSize == 1

\* net/http status codes written by the handlers.
StatusOK == 200
StatusBadRequest == 400
StatusUnauthorized == 401
StatusNotFound == 404
StatusConflict == 409
StatusInternalServerError == 500
StatusServiceUnavailable == 503
\* No header written yet.
NoStatus == 0

Requests == 1..NumReq

Methods == {"POST", "HEAD", "GET"}

\* The five groups of paths registered by NewUploadServer.
Paths == {"sync", "async", "archive", "syncForm", "asyncForm"}

\* Handler variant registered for a path.
HandlerOf(path) ==
    CASE path \in {"sync", "syncForm"} -> "uploadHandler"
      [] path \in {"async", "asyncForm"} -> "uploadHandlerAsync"
      [] OTHER -> "uploadArchiveHandler"

\* imageReadCloser registered for a path.
IrcOf(path) ==
    IF path \in {"syncForm", "asyncForm"} THEN "formReadCloser" ELSE "bodyReadCloser"

\* Subject common names of peer certificates; clientName is the configured one.
clientName == "client-A"
CommonNames == {"client-A", "client-B"}

RECURSIVE SeqsUpTo(_, _)
SeqsUpTo(S, n) ==
    IF n = 0 THEN {<<>>}
    ELSE LET shorter == SeqsUpTo(S, n - 1)
         IN shorter \cup {Append(s, x) : s \in {t \in shorter : Len(t) = n - 1}, x \in S}

\* r.TLS: absent (plain HTTP) or present with the verified peer certificates.
\* The certificates are only searched for the configured common name, so a
\* chain is represented by the set of the common names of its certificates.
TLSInputs ==
    {[present |-> FALSE, PeerCertificates |-> {}]} \cup
    {[present |-> TRUE, PeerCertificates |-> c] : c \in SUBSET CommonNames}

\* Request bodies as formReadCloser sees them: whether MultipartReader accepts
\* the body, and the form names of its parts in stream order.
FormNames == {"file", "other"}
Bodies == [multipart : BOOLEAN, parts : SeqsUpTo(FormNames, MaxParts)]

\* Values of the upload content-type header.
FilesystemCloneContentType == "filesystem-clone"
ContentTypes == {"", "blockdevice-clone", FilesystemCloneContentType}

\* Outcomes of a processor call: nil, a ValidationSizeError, any other error.
ProcOutcomes == {"nil", "ValidationSizeError", "error"}

\* Tar entries as untarToBlockdev sees them.  A name is the sequence of its
\* pieces, so that strings.Contains is a search for a contiguous run of pieces.
DiskImageName == <<"disk.img">>
TarNames == {<<"metadata.json">>, <<"disk.img">>, <<"disk.img", ".bak">>}
Typeflags == {"TypeReg", "TypeGNUSparse", "TypeDir"}
TarHeaders == [Name : TarNames, Typeflag : Typeflags, Size : 0..MaxSize]
Archives == UNION {[1..n -> TarHeaders] : n \in 0..MaxEntries}

VARIABLES
    uploading,            \* app.uploading
    processing,           \* app.processing
    done,                 \* app.done
    preallocationApplied, \* app.preallocationApplied
    doneChanClosed,       \* close(app.doneChan) has happened
    closePanic,           \* close of the already closed doneChan
    pc,                   \* position of each request's goroutine(s)
    route,                \* path of the handler that admitted each request
    status,               \* status code of each response (first WriteHeader)
    runPc,                \* position of Run
    runErr,               \* err variable of Run
    healthzShutdown,      \* result of healthzServer.Shutdown in Run, "none" before
    uploadShutdown,       \* result of uploadServer.Shutdown in Run, "none" before
    unguarded,            \* accesses of preallocationApplied made without app.mutex
    reported,             \* preallocation outcome last reported by a processor
    archive,              \* untarToBlockdev: the entries of the tar stream
    tarPos,               \* untarToBlockdev: number of headers tr.Next has returned
    dest,                 \* untarToBlockdev: bytes written to the destination
    untarPc               \* untarToBlockdev: position of the function

vars == <<uploading, processing, done, preallocationApplied, doneChanClosed,
          closePanic, pc, route, status, runPc, runErr,
          healthzShutdown, uploadShutdown, unguarded, reported,
          archive, tarPos, dest, untarPc>>

session == <<uploading, processing, done, preallocationApplied>>
chans == <<doneChanClosed, closePanic>>
shutdowns == <<healthzShutdown, uploadShutdown>>
run == <<runPc, runErr, shutdowns>>
untar == <<archive, tarPos, dest, untarPc>>
ghost == <<unguarded, reported>>
server == <<session, chans, pc, route, status, run, ghost>>

PcValues == {"new", "rejected", "probed", "admitted", "running", "runningClone",
             "procNil", "procValidationSizeError", "procError", "procUnsupported",
             "failed", "succeeded",
             "bgResume", "bgSend", "bgFinishOk", "bgFinishErr",
             "bgCloseOk", "bgCloseErr", "bgExitOk", "bgExitErr"}

TypeOK ==
    /\ uploading \in BOOLEAN /\ processing \in BOOLEAN /\ done \in BOOLEAN
    /\ preallocationApplied \in BOOLEAN
    /\ doneChanClosed \in BOOLEAN /\ closePanic \in BOOLEAN
    /\ pc \in [Requests -> PcValues]
    /\ route \in [Requests -> Paths \cup {"none"}]
    /\ status \in [Requests -> {NoStatus, StatusOK, StatusBadRequest, StatusUnauthorized,
                                StatusNotFound, StatusConflict,
                                StatusInternalServerError, StatusServiceUnavailable}]
    /\ runPc \in {"notStarted", "select", "shutdownHealthz", "shutdownUpload", "returned"}
    /\ runErr \in {"nil", "startup", "serve", "resume"}
    /\ healthzShutdown \in {"none", "nil", "error"}
    /\ uploadShutdown \in {"none", "nil", "error"}
    /\ unguarded \subseteq {"write", "read"}
    /\ reported \in BOOLEAN
    /\ archive \in Archives
    /\ tarPos \in 0..Len(archive)
    /\ dest \in Seq((1..MaxEntries) \X (1..MaxSize))
    /\ untarPc \in {"idle", "next", "returned"}

\* NewUploadServer: all flags false, both channels open and empty.
NewUploadServer ==
    /\ uploading = FALSE /\ processing = FALSE /\ done = FALSE
    /\ preallocationApplied = FALSE
    /\ doneChanClosed = FALSE /\ closePanic = FALSE
    /\ pc = [r \in Requests |-> "new"]
    /\ route = [r \in Requests |-> "none"]
    /\ status = [r \in Requests |-> NoStatus]
    /\ runPc = "notStarted" /\ runErr = "nil"
    /\ healthzShutdown = "none" /\ uploadShutdown = "none"
    /\ unguarded = {} /\ reported = FALSE

\* No call of untarToBlockdev is being followed.
untarIdle ==
    /\ archive = <<>> /\ tarPos = 0 /\ dest = <<>> /\ untarPc = "idle"

Init == NewUploadServer /\ untarIdle

----------------------------------------------------------------------------
\* Pure helpers.

\* http.ResponseWriter.WriteHeader: the first call fixes the status, a later
\* call is superfluous and ignored.
WriteHeader(st, code) == IF st = NoStatus THEN code ELSE st

\* Status the client sees when the handler returns: 200 if none was written.
Returned(st) == IF st = NoStatus THEN StatusOK ELSE st

\* The loop over r.TLS.PeerCertificates.
found(tls) ==
    \E cert \in tls.PeerCertificates : cert = clientName

\* Variant of phaseCheck without the test of done.
phaseCheck_NoDone(up, pr, dn) ==
    IF up \/ pr THEN StatusServiceUnavailable
    ELSE NoStatus

\* The phase check under the mutex: the status of the rejection, or NoStatus
\* when the request is admitted.
phaseCheck(up, pr, dn) ==
    IF up \/ pr THEN StatusServiceUnavailable
    ELSE IF dn THEN StatusConflict
    ELSE NoStatus

\* Variant of validateStatus that runs the phase check before the
\* peer-certificate check.
validateStatus_PhaseFirst(method, tls, up, pr, dn) ==
    IF method # "POST" THEN StatusNotFound
    ELSE IF phaseCheck(up, pr, dn) # NoStatus THEN phaseCheck(up, pr, dn)
    ELSE IF tls.present /\ ~found(tls) THEN StatusUnauthorized
    ELSE NoStatus

\* validateShouldHandleRequest as a function of the request and the flags: the
\* status it writes, or NoStatus when it returns true.
validateStatus(method, tls, up, pr, dn) ==
    IF method # "POST" THEN StatusNotFound
    ELSE IF tls.present /\ ~found(tls) THEN StatusUnauthorized
    ELSE phaseCheck(up, pr, dn)

\* formReadCloser: TRUE when it returns an error.
formReadCloserErr(body) ==
    \/ ~body.multipart
    \/ ~\E i \in 1..Len(body.parts) : body.parts[i] = "file"

ircErr(path, body) ==
    IF IrcOf(path) = "formReadCloser" THEN formReadCloserErr(body) ELSE FALSE

\* Status uploadHandlerAsync writes for a processor error.
asyncErrStatus(outcome) ==
    IF outcome = "ValidationSizeError" THEN StatusBadRequest
    ELSE StatusInternalServerError

\* Status processUpload writes for a processor error.
syncErrStatus(outcome) == StatusInternalServerError

----------------------------------------------------------------------------
\* Request handlers.

IsAsync(r) == HandlerOf(route[r]) = "uploadHandlerAsync"

\* Variant of validateShouldHandleRequest that admits without setting uploading.
validateShouldHandleRequest_NoSet(r, method, tls) ==
    LET st == validateStatus(method, tls, uploading, processing, done)
    IN IF st = NoStatus
       THEN /\ pc' = [pc EXCEPT ![r] = "admitted"]
            /\ UNCHANGED <<uploading, status>>
       ELSE /\ status' = [status EXCEPT ![r] = WriteHeader(status[r], st)]
            /\ pc' = [pc EXCEPT ![r] = "rejected"]
            /\ UNCHANGED uploading

\* validateShouldHandleRequest called for request r: the method and
\* peer-certificate checks, then the check-and-set of the phase under the mutex.
validateShouldHandleRequest(r, method, tls) ==
    LET st == validateStatus(method, tls, uploading, processing, done)
    IN IF st = NoStatus
       THEN /\ uploading' = TRUE
            /\ pc' = [pc EXCEPT ![r] = "admitted"]
            /\ UNCHANGED status
       ELSE /\ status' = [status EXCEPT ![r] = WriteHeader(status[r], st)]
            /\ pc' = [pc EXCEPT ![r] = "rejected"]
            /\ UNCHANGED uploading

\* Variant of uploadHandlerAsync without the HEAD shortcut.
uploadHandlerAsync_NoHead(r, method, tls) ==
    validateShouldHandleRequest(r, method, tls)

\* Entry of the handler returned by uploadHandlerAsync: HEAD is answered 200
\* before anything else, every other request goes through the admission check.
uploadHandlerAsync(r, method, tls) ==
    IF method = "HEAD"
    THEN /\ status' = [status EXCEPT ![r] = WriteHeader(status[r], StatusOK)]
         /\ pc' = [pc EXCEPT ![r] = "probed"]
         /\ UNCHANGED uploading
    ELSE validateShouldHandleRequest(r, method, tls)

\* Entry of processUpload (uploadHandler and uploadArchiveHandler).
processUpload(r, method, tls) == validateShouldHandleRequest(r, method, tls)

\* The mux dispatches a new request to the handler registered for its path and
\* the handler runs up to the end of the admission check.  Requests are
\* numbered in the order in which their handlers start.
ServeHTTP(r, path, method, tls) ==
    /\ pc[r] = "new"
    /\ \A q \in Requests : q < r => pc[q] # "new"
    /\ IF HandlerOf(path) = "uploadHandlerAsync"
       THEN uploadHandlerAsync(r, method, tls)
       ELSE processUpload(r, method, tls)
    /\ route' = [route EXCEPT ![r] = IF pc'[r] = "admitted" THEN path ELSE @]
    /\ UNCHANGED <<processing, done, preallocationApplied, chans, run, ghost, untar>>

\* An admitted request reads the content-type header, calls irc (a failure
\* writes 400 and the handler goes on) and calls the processor function.
\* newAsyncUploadStreamProcessor returns an error at once for a filesystem
\* clone; newUploadStreamProcessor hands it to filesystemCloneProcessor.
invokeProcessor(r, body, ctype) ==
    /\ pc[r] = "admitted"
    /\ status' = [status EXCEPT ![r] =
                    IF ircErr(route[r], body)
                    THEN WriteHeader(status[r], StatusBadRequest) ELSE status[r]]
    /\ pc' = [pc EXCEPT ![r] =
                IF ctype = FilesystemCloneContentType
                THEN IF IsAsync(r) THEN "procUnsupported" ELSE "runningClone"
                ELSE "running"]
    /\ UNCHANGED <<session, chans, route, run, ghost, untar>>

\* The processor function returns.  processUpload assigns its first result to
\* app.preallocationApplied before taking the mutex (an unguarded write); the
\* async handler only keeps the error of ProcessDataWithPause.
processorReturns(r, outcome, prealloc) ==
    /\ pc[r] \in {"running", "runningClone"}
    /\ pc[r] = "runningClone" => outcome # "ValidationSizeError" /\ prealloc = FALSE
    /\ pc' = [pc EXCEPT ![r] =
                CASE outcome = "nil" -> "procNil"
                  [] outcome = "ValidationSizeError" -> "procValidationSizeError"
                  [] OTHER -> "procError"]
    /\ preallocationApplied' = IF IsAsync(r) THEN preallocationApplied ELSE prealloc
    /\ reported' = IF IsAsync(r) THEN reported ELSE prealloc
    /\ unguarded' = IF IsAsync(r) THEN unguarded ELSE unguarded \cup {"write"}
    /\ UNCHANGED <<uploading, processing, done, chans, route, status, run, untar>>

\* The processor function has returned: nil, a ValidationSizeError, another
\* error of the processor, or the "async filesystem clone not supported" error
\* that newAsyncUploadStreamProcessor returns without creating a processor.
ProcPcs == {"procNil", "procValidationSizeError", "procError", "procUnsupported"}

OutcomeAt(p) ==
    CASE p = "procNil" -> "nil"
      [] p = "procValidationSizeError" -> "ValidationSizeError"
      [] OTHER -> "error"

\* Variant of closeDoneChan that leaves the channel open.
closeDoneChan_Noop ==
    UNCHANGED <<doneChanClosed, closePanic>>

\* close(app.doneChan); closing a closed channel panics.
closeDoneChan ==
    /\ doneChanClosed' = TRUE
    /\ closePanic' = (closePanic \/ doneChanClosed)

\* Variant of processUploadFinish that leaves uploading set on success.
processUploadFinish_KeepUploading(r) ==
    /\ pc[r] \in ProcPcs /\ ~IsAsync(r)
    /\ IF pc[r] # "procNil"
       THEN /\ status' = [status EXCEPT ![r] =
                            WriteHeader(status[r], syncErrStatus(OutcomeAt(pc[r])))]
            /\ uploading' = FALSE
            /\ pc' = [pc EXCEPT ![r] = "failed"]
            /\ UNCHANGED <<done, chans>>
       ELSE /\ UNCHANGED uploading
            /\ done' = TRUE
            /\ closeDoneChan
            /\ status' = [status EXCEPT ![r] = Returned(status[r])]
            /\ pc' = [pc EXCEPT ![r] = "succeeded"]
    /\ UNCHANGED <<processing, preallocationApplied, route, run, ghost, untar>>

\* The critical section at the end of processUpload.
processUploadFinish(r) ==
    /\ pc[r] \in ProcPcs /\ ~IsAsync(r)
    /\ IF pc[r] # "procNil"
       THEN /\ status' = [status EXCEPT ![r] =
                            WriteHeader(status[r], syncErrStatus(OutcomeAt(pc[r])))]
            /\ uploading' = FALSE
            /\ pc' = [pc EXCEPT ![r] = "failed"]
            /\ UNCHANGED <<done, chans>>
       ELSE /\ uploading' = FALSE
            /\ done' = TRUE
            /\ closeDoneChan
            /\ status' = [status EXCEPT ![r] = Returned(status[r])]
            /\ pc' = [pc EXCEPT ![r] = "succeeded"]
    /\ UNCHANGED <<processing, preallocationApplied, route, run, ghost, untar>>

\* Variant of uploadHandlerAsyncFinish that starts the background goroutine
\* without setting processing.
uploadHandlerAsyncFinish_NoProcessing(r) ==
    /\ pc[r] \in ProcPcs /\ IsAsync(r)
    /\ IF pc[r] # "procNil"
       THEN /\ status' = [status EXCEPT ![r] =
                            WriteHeader(status[r], asyncErrStatus(OutcomeAt(pc[r])))]
            /\ uploading' = FALSE
            /\ pc' = [pc EXCEPT ![r] = "failed"]
            /\ UNCHANGED processing
       ELSE /\ uploading' = FALSE
            /\ UNCHANGED processing
            /\ status' = [status EXCEPT ![r] = Returned(status[r])]
            /\ pc' = [pc EXCEPT ![r] = "bgResume"]
    /\ UNCHANGED <<done, preallocationApplied, chans, route, run, ghost, untar>>

\* The critical section at the end of the async handler: an error of the
\* header phase ends the attempt, otherwise the session moves to processing,
\* the background goroutine is started and the handler returns.
uploadHandlerAsyncFinish(r) ==
    /\ pc[r] \in ProcPcs /\ IsAsync(r)
    /\ IF pc[r] # "procNil"
       THEN /\ status' = [status EXCEPT ![r] =
                            WriteHeader(status[r], asyncErrStatus(OutcomeAt(pc[r])))]
            /\ uploading' = FALSE
            /\ pc' = [pc EXCEPT ![r] = "failed"]
            /\ UNCHANGED processing
       ELSE /\ uploading' = FALSE
            /\ processing' = TRUE
            /\ status' = [status EXCEPT ![r] = Returned(status[r])]
            /\ pc' = [pc EXCEPT ![r] = "bgResume"]
    /\ UNCHANGED <<done, preallocationApplied, chans, route, run, ghost, untar>>

----------------------------------------------------------------------------
\* The background goroutine of the async handler.

\* Variant of ProcessDataResume whose error is only logged, not sent on errChan.
ProcessDataResume_NoSend(r, ok) ==
    /\ pc[r] = "bgResume"
    /\ pc' = [pc EXCEPT ![r] = IF ok THEN "bgFinishOk" ELSE "bgFinishErr"]
    /\ UNCHANGED <<session, chans, route, status, run, ghost, untar>>

\* processor.ProcessDataResume() returns; on an error the goroutine goes on to
\* send it on errChan.
ProcessDataResume(r, ok) ==
    /\ pc[r] = "bgResume"
    /\ pc' = [pc EXCEPT ![r] = IF ok THEN "bgFinishOk" ELSE "bgSend"]
    /\ UNCHANGED <<session, chans, route, status, run, ghost, untar>>

\* app.errChan <- err meets the receive in the select of Run (errChan is
\* unbuffered, the send blocks until then).
errChanResume(r) ==
    /\ pc[r] = "bgSend"
    /\ runPc = "select"
    /\ pc' = [pc EXCEPT ![r] = "bgFinishErr"]
    /\ runPc' = "returned"
    /\ runErr' = "resume"
    /\ UNCHANGED <<session, chans, route, status, shutdowns, ghost, untar>>

\* Variant of backgroundFinish that leaves processing set.
backgroundFinish_KeepProcessing(r, prealloc) ==
    /\ pc[r] \in {"bgFinishOk", "bgFinishErr"}
    /\ UNCHANGED processing
    /\ done' = TRUE
    /\ preallocationApplied' = prealloc
    /\ reported' = prealloc
    /\ pc' = [pc EXCEPT ![r] = IF pc[r] = "bgFinishOk" THEN "bgCloseOk" ELSE "bgCloseErr"]
    /\ UNCHANGED <<uploading, chans, route, status, run, unguarded, untar>>

\* Variant of backgroundFinish that does not record the preallocation outcome.
backgroundFinish_NoRecord(r, prealloc) ==
    /\ pc[r] \in {"bgFinishOk", "bgFinishErr"}
    /\ processing' = FALSE
    /\ done' = TRUE
    /\ reported' = prealloc
    /\ pc' = [pc EXCEPT ![r] = IF pc[r] = "bgFinishOk" THEN "bgCloseOk" ELSE "bgCloseErr"]
    /\ UNCHANGED <<uploading, preallocationApplied, chans, route, status, run,
                   unguarded, untar>>

\* The critical section of the goroutine, reached after a successful resume
\* and also after the error was sent; prealloc is what
\* processor.PreallocationApplied() reports.
backgroundFinish(r, prealloc) ==
    /\ pc[r] \in {"bgFinishOk", "bgFinishErr"}
    /\ processing' = FALSE
    /\ done' = TRUE
    /\ preallocationApplied' = prealloc
    /\ reported' = prealloc
    /\ pc' = [pc EXCEPT ![r] = IF pc[r] = "bgFinishOk" THEN "bgCloseOk" ELSE "bgCloseErr"]
    /\ UNCHANGED <<uploading, chans, route, status, run, unguarded, untar>>

\* The deferred close(app.doneChan), run after the deferred Unlock.
backgroundClose(r) ==
    /\ pc[r] \in {"bgCloseOk", "bgCloseErr"}
    /\ closeDoneChan
    /\ pc' = [pc EXCEPT ![r] = IF pc[r] = "bgCloseOk" THEN "bgExitOk" ELSE "bgExitErr"]
    /\ UNCHANGED <<session, route, status, run, ghost, untar>>

----------------------------------------------------------------------------
\* Run.

\* Run creates the servers and listeners and starts the two serving
\* goroutines, or returns the error of a failed step.
RunStart(ok) ==
    /\ runPc = "notStarted"
    /\ runPc' = IF ok THEN "select" ELSE "returned"
    /\ runErr' = IF ok THEN "nil" ELSE "startup"
    /\ UNCHANGED <<session, chans, pc, route, status, shutdowns, ghost, untar>>

\* select, case err = <-app.errChan, fed by a serving goroutine whose Serve
\* returned.
RunServeErr ==
    /\ runPc = "select"
    /\ runPc' = "returned"
    /\ runErr' = "serve"
    /\ UNCHANGED <<session, chans, pc, route, status, shutdowns, ghost, untar>>

\* select, case <-app.doneChan.
RunDone ==
    /\ runPc = "select"
    /\ doneChanClosed
    /\ runPc' = "shutdownHealthz"
    /\ UNCHANGED <<session, chans, pc, route, status, runErr, shutdowns, ghost, untar>>

\* Variant of RunShutdownHealthz that returns when the shutdown fails.
RunShutdownHealthz_ReturnOnError(result) ==
    /\ runPc = "shutdownHealthz"
    /\ healthzShutdown' = result
    /\ runPc' = IF result = "error" THEN "returned" ELSE "shutdownUpload"
    /\ UNCHANGED <<session, chans, pc, route, status, runErr, uploadShutdown, ghost, untar>>

\* healthzServer.Shutdown returns nil or an error; the error is only logged
\* (it is assigned to a variable of the if statement, not to err of Run).
RunShutdownHealthz(result) ==
    /\ runPc = "shutdownHealthz"
    /\ healthzShutdown' = result
    /\ runPc' = "shutdownUpload"
    /\ UNCHANGED <<session, chans, pc, route, status, runErr, uploadShutdown, ghost, untar>>

\* uploadServer.Shutdown returns nil or an error; the error is only logged;
\* Run returns err.
RunShutdownUpload(result) ==
    /\ runPc = "shutdownUpload"
    /\ uploadShutdown' = result
    /\ runPc' = "returned"
    /\ UNCHANGED <<session, chans, pc, route, status, runErr, healthzShutdown, ghost, untar>>

----------------------------------------------------------------------------
Next ==
    \/ \E r \in Requests, path \in Paths, method \in Methods, tls \in TLSInputs :
          ServeHTTP(r, path, method, tls)
    \/ \E r \in Requests, body \in Bodies, ctype \in ContentTypes :
          invokeProcessor(r, body, ctype)
    \/ \E r \in Requests, outcome \in ProcOutcomes, prealloc \in BOOLEAN :
          processorReturns(r, outcome, prealloc)
    \/ \E r \in Requests : processUploadFinish(r)
    \/ \E r \in Requests : uploadHandlerAsyncFinish(r)
    \/ \E r \in Requests, ok \in BOOLEAN : ProcessDataResume(r, ok)
    \/ \E r \in Requests : errChanResume(r)
    \/ \E r \in Requests, prealloc \in BOOLEAN : backgroundFinish(r, prealloc)
    \/ \E r \in Requests : backgroundClose(r)
    \/ \E ok \in BOOLEAN : RunStart(ok)
    \/ RunServeErr
    \/ RunDone
    \/ \E result \in {"nil", "error"} : RunShutdownHealthz(result)
    \/ \E result \in {"nil", "error"} : RunShutdownUpload(result)

Spec == Init /\ [][Next]_vars

\* A caller of the exported PreallocationApplied method: it reads the field
\* without taking the mutex.
PreallocationApplied ==
    /\ unguarded' = unguarded \cup {"read"}
    /\ UNCHANGED <<session, chans, pc, route, status, run, reported, untar>>

\* The server together with callers of PreallocationApplied.
CallerNext ==
    \/ Next
    \/ PreallocationApplied

CallerSpec == Init /\ [][CallerNext]_vars

\* Scheduling: a goroutine that can take the mutex, send on errChan to the
\* waiting Run, close doneChan or go on in Run eventually does.  Nothing is
\* assumed of the arrival of requests, of the return of a processor (a stalled
\* body read blocks it for ever), of the start of Run or of a Serve error.
Fairness ==
    /\ WF_vars(\E r \in Requests : processUploadFinish(r))
    /\ WF_vars(\E r \in Requests : uploadHandlerAsyncFinish(r))
    /\ WF_vars(\E r \in Requests : errChanResume(r))
    /\ WF_vars(\E r \in Requests, prealloc \in BOOLEAN : backgroundFinish(r, prealloc))
    /\ WF_vars(\E r \in Requests : backgroundClose(r))
    /\ WF_vars(RunDone)
    /\ WF_vars(\E result \in {"nil", "error"} : RunShutdownHealthz(result))
    /\ WF_vars(\E result \in {"nil", "error"} : RunShutdownUpload(result))

FairSpec == Spec /\ Fairness

----------------------------------------------------------------------------
\* untarToBlockdev, followed for one call on one tar stream.  The stream is a
\* well-formed archive (tr.Next returns its headers in order and then io.EOF,
\* the reader of an entry yields exactly header.Size bytes) and the destination
\* opens and takes every write.

\* strings.Contains(name, sub) on names given as sequences of pieces.
Contains(name, sub) ==
    \E i \in 0..(Len(name) - Len(sub)) :
       \A k \in 1..Len(sub) : name[i + k] = sub[k]

\* The bytes of entry i: byte k of the entry is the pair <<i, k>>.
Content(i, n) == [k \in 1..n |-> <<i, k>>]

\* A call of untarToBlockdev starts on some archive, the destination taken as
\* empty so that dest is what the call appends.
untarStart ==
    /\ NewUploadServer
    /\ archive \in Archives
    /\ tarPos = 0 /\ dest = <<>> /\ untarPc = "next"

\* tr.Next() returns io.EOF: return nil.
untarEOF ==
    /\ untarPc = "next"
    /\ tarPos = Len(archive)
    /\ untarPc' = "returned"
    /\ UNCHANGED <<server, archive, tarPos, dest>>

\* tr.Next() returns a header that is passed over: its name does not contain
\* DiskImageName, or its type is neither TypeReg nor TypeGNUSparse.
untarContinue ==
    /\ untarPc = "next"
    /\ tarPos < Len(archive)
    /\ LET header == archive[tarPos + 1]
       IN \/ ~Contains(header.Name, DiskImageName)
          \/ header.Typeflag \notin {"TypeReg", "TypeGNUSparse"}
    /\ tarPos' = tarPos + 1
    /\ UNCHANGED <<server, archive, dest, untarPc>>

\* Variant of untarCopy that goes on with the next header after the copy.
untarCopy_NoReturn ==
    /\ untarPc = "next"
    /\ tarPos < Len(archive)
    /\ LET header == archive[tarPos + 1]
       IN /\ Contains(header.Name, DiskImageName)
          /\ header.Typeflag \in {"TypeReg", "TypeGNUSparse"}
          /\ dest' = dest \o Content(tarPos + 1, header.Size)
    /\ tarPos' = tarPos + 1
    /\ UNCHANGED <<server, archive, untarPc>>

\* tr.Next() returns a regular or sparse entry whose name contains
\* DiskImageName: io.CopyN appends header.Size bytes of it to the destination
\* and the function returns nil.
untarCopy ==
    /\ untarPc = "next"
    /\ tarPos < Len(archive)
    /\ LET header == archive[tarPos + 1]
       IN /\ Contains(header.Name, DiskImageName)
          /\ header.Typeflag \in {"TypeReg", "TypeGNUSparse"}
          /\ dest' = dest \o Content(tarPos + 1, header.Size)
    /\ tarPos' = tarPos + 1
    /\ untarPc' = "returned"
    /\ UNCHANGED <<server, archive>>

untarToBlockdev ==
    \/ untarEOF
    \/ untarContinue
    \/ untarCopy

UntarSpec == untarStart /\ [][untarToBlockdev]_vars

----------------------------------------------------------------------------
\* Vocabulary of the properties.

\* Positions at which a request holds the session in Uploading / Processing.
UploadingPcs == {"admitted", "running", "runningClone"} \cup ProcPcs
ProcessingPcs == {"bgResume", "bgSend", "bgFinishOk", "bgFinishErr"}

\* Requests that passed the admission check and are not finished with the session.
InFlight == {r \in Requests : pc[r] \in UploadingPcs \cup ProcessingPcs}

\* Requests that were ever admitted.
Admitted == {r \in Requests : pc[r] \notin {"new", "rejected", "probed"}}

\* Requests whose processing completed successfully and set done.
Succeeded == {r \in Requests : pc[r] \in {"succeeded", "bgCloseOk", "bgExitOk"}}

\* Requests whose handler ended the attempt with a processor error.
Failed == {r \in Requests : pc[r] = "failed"}

\* This step is request r running the phase check of validateShouldHandleRequest.
RanPhaseCheck(r) ==
    /\ pc[r] = "new"
    /\ \/ pc'[r] = "admitted"
       \/ /\ pc'[r] = "rejected"
          /\ status'[r] \in {StatusServiceUnavailable, StatusConflict}

\* This step starts a processor for r: the processor function of the handler
\* or ProcessDataResume of the background goroutine.
ProcessorStarts(r) ==
    \/ pc[r] = "admitted" /\ pc'[r] # "admitted"
    \/ pc[r] # "bgResume" /\ pc'[r] = "bgResume"

----------------------------------------------------------------------------
\* C1 (single admission): at most one request is in flight at any time and
\* uploading is set exactly while a handler holds the session; a request that
\* runs the phase check while another one is in flight is rejected with 503 and
\* changes nothing; a request that runs it on the idle session is admitted and
\* becomes the one request in flight.
C1_SingleAdmission ==
    /\ [](/\ Cardinality(InFlight) <= 1
          /\ uploading <=> (\E r \in Requests : pc[r] \in UploadingPcs))
    /\ [][\A r \in Requests :
            RanPhaseCheck(r) =>
              IF InFlight # {}
              THEN /\ pc'[r] = "rejected"
                   /\ status'[r] = StatusServiceUnavailable
                   /\ InFlight' = InFlight
                   /\ UNCHANGED session
              ELSE ~done => /\ InFlight' = {r}
                            /\ uploading']_vars

C1_Witness ==
    \E r1, r2 \in Requests :
       /\ r1 # r2
       /\ uploading /\ pc[r1] \in UploadingPcs
       /\ pc[r2] = "rejected" /\ status[r2] = StatusServiceUnavailable

\* C2 (terminal state): once done is set it stays set, and every request
\* that arrives afterwards is not admitted, never gets 503, and gets 409 if it
\* reaches the phase check.
C2_TerminalState ==
    [][done =>
         /\ done'
         /\ \A r \in Requests :
              (pc[r] = "new" /\ pc'[r] # "new") =>
                 /\ pc'[r] # "admitted"
                 /\ status'[r] # StatusServiceUnavailable
                 /\ RanPhaseCheck(r) => status'[r] = StatusConflict]_vars

C2_Witness ==
    /\ done
    /\ \E r \in Requests : pc[r] = "rejected" /\ status[r] = StatusConflict

C4_AtMostOneSuccess ==
    /\ [](Cardinality(Succeeded) <= 1)
    /\ [][Succeeded # {} => \A r \in Requests : ~ProcessorStarts(r)]_vars

C4_Witness ==
    /\ Succeeded # {}
    /\ Failed # {}
    /\ done /\ doneChanClosed

\* C5 (phase well-formedness): at most one of uploading, processing, done is
\* true, and all three are false until the first request has arrived.
C5_PhaseWellFormed ==
    /\ ~(uploading /\ processing)
    /\ ~(uploading /\ done)
    /\ ~(processing /\ done)
    /\ (\A r \in Requests : pc[r] = "new") => ~uploading /\ ~processing /\ ~done

C5_Witness ==
    /\ done
    /\ \E r \in Requests : pc[r] = "bgExitOk"

\* C6 as stated: when a sync or archive handler ends with a processor error,
\* it leaves uploading false, done false and the done signal open, answers
\* 500, and a request checked afterwards on the idle session is not told 503.
C6_FailedSyncAttempt ==
    [][\A r \in Requests :
         /\ (pc[r] \in ProcPcs /\ ~IsAsync(r) /\ pc'[r] = "failed") =>
               /\ ~uploading' /\ ~done' /\ ~doneChanClosed'
               /\ status'[r] = StatusInternalServerError
         /\ (RanPhaseCheck(r) /\ Failed # {} /\ InFlight = {}) =>
               status'[r] # StatusServiceUnavailable]_vars

\* C7 as stated: after the background resume failed and its error was sent on
\* errChan, done is false and the done signal is not closed.
C7_AsyncFailureNotDone ==
    \A r \in Requests :
       pc[r] \in {"bgFinishErr", "bgCloseErr", "bgExitErr"} =>
          ~done /\ ~doneChanClosed

\* C8 (HEAD probe): a HEAD request on an async path is answered 200, is not
\* admitted and leaves uploading, processing, done and preallocationApplied as
\* they were, whatever the phase and the peer certificates.
C8_HeadProbe ==
    [][\A r \in Requests, path \in Paths, tls \in TLSInputs :
         (HandlerOf(path) = "uploadHandlerAsync" /\ ServeHTTP(r, path, "HEAD", tls)) =>
            /\ status'[r] = StatusOK
            /\ pc'[r] \notin UploadingPcs
            /\ UNCHANGED session]_vars

C8_Witness ==
    \E r1, r2 \in Requests :
       /\ pc[r1] = "probed" /\ status[r1] = StatusOK
       /\ pc[r2] \in UploadingPcs \cup ProcessingPcs
       /\ uploading \/ processing

\* C9 (mTLS rejection): a POST on a TLS connection none of whose peer
\* certificates carries the configured common name is rejected with 401 in
\* every phase, without a change of the session.
C9_PeerMismatchRejected ==
    [][\A r \in Requests, path \in Paths, tls \in TLSInputs :
         (tls.present /\ ~found(tls) /\ ServeHTTP(r, path, "POST", tls)) =>
            /\ pc'[r] = "rejected"
            /\ status'[r] = StatusUnauthorized
            /\ UNCHANGED session]_vars

C9_Witness ==
    \E r1, r2 \in Requests :
       /\ pc[r1] = "rejected" /\ status[r1] = StatusUnauthorized
       /\ pc[r2] \in UploadingPcs

\* C10 as stated: in every handler variant a processor failure of an admitted
\* request is answered 400 when it is a ValidationSizeError and 500 otherwise.
C10_ValidationSizeMapping ==
    [][\A r \in Requests :
         (pc[r] \in ProcPcs /\ pc'[r] = "failed") =>
            status'[r] = IF pc[r] = "procValidationSizeError"
                         THEN StatusBadRequest
                         ELSE StatusInternalServerError]_vars

\* C11 as stated: an admitted async request with the filesystem-clone content
\* type is answered 400, its processor is never run, and its handler leaves
\* uploading, processing and done false.
C11_AsyncFilesystemCloneRejected ==
    [][\A r \in Requests :
         /\ (pc[r] = "procUnsupported" /\ pc'[r] # pc[r]) =>
               /\ pc'[r] = "failed"
               /\ status'[r] = StatusBadRequest
               /\ ~uploading' /\ ~processing' /\ ~done'
         /\ \A body \in Bodies :
               (IsAsync(r) /\ invokeProcessor(r, body, FilesystemCloneContentType)) =>
                  pc'[r] \notin {"running", "runningClone"}]_vars

\* Entries of the archive that are regular or sparse files with the disk-image
\* marker in their name.
ImageEntries ==
    {i \in 1..Len(archive) :
        /\ Contains(archive[i].Name, DiskImageName)
        /\ archive[i].Typeflag \in {"TypeReg", "TypeGNUSparse"}}

FirstImageEntry == CHOOSE i \in ImageEntries : \A j \in ImageEntries : i <= j

\* C12 (archive extraction): nothing is written before the first image entry is
\* reached, and when untarToBlockdev has returned the destination holds exactly
\* the declared number of bytes of the first image entry, all of them bytes of
\* that entry, and nothing when the archive has no image entry; no header after
\* that entry has been read.
C12_FirstImageEntryOnly ==
    /\ untarPc = "next" => dest = <<>>
    /\ untarPc = "returned" =>
          IF ImageEntries = {}
          THEN dest = <<>> /\ tarPos = Len(archive)
          ELSE /\ dest = Content(FirstImageEntry, archive[FirstImageEntry].Size)
               /\ Len(dest) = archive[FirstImageEntry].Size
               /\ tarPos = FirstImageEntry

\* The archive [metadata.json, disk.img (1 byte), disk.img.bak (0 or 1 byte)]
\* has been extracted.
C12_Witness ==
    /\ untarPc = "returned"
    /\ Len(archive) = 3
    /\ archive[1].Name = <<"metadata.json">>
    /\ archive[2].Name = <<"disk.img">> /\ archive[2].Typeflag = "TypeReg"
    /\ archive[2].Size = 1
    /\ archive[3].Name = <<"disk.img", ".bak">> /\ archive[3].Typeflag = "TypeReg"
    /\ dest = <<<<2, 1>>>>

\* C13 (shutdown ordering): once Run has taken the completion branch its next
\* step is the shutdown of the health listener and the one after that the
\* shutdown of the ingestion listener, whatever the first one returned; the
\* ingestion listener is never shut down before the health listener, and Run
\* returns from this branch only with both attempts made and a nil error.
C13_ShutdownOrdering ==
    /\ [](/\ uploadShutdown # "none" => healthzShutdown # "none"
          /\ runPc = "shutdownUpload" => healthzShutdown # "none" /\ uploadShutdown = "none"
          /\ (runPc = "returned" /\ healthzShutdown # "none") =>
                uploadShutdown # "none" /\ runErr = "nil")
    /\ [][/\ (runPc = "shutdownHealthz" /\ runPc' # runPc) =>
                /\ healthzShutdown' # "none" /\ uploadShutdown' = "none"
                /\ runPc' = "shutdownUpload"
          /\ (runPc = "shutdownUpload" /\ runPc' # runPc) =>
                /\ uploadShutdown' # "none"
                /\ runPc' = "returned" /\ runErr' = "nil"]_vars

C13_Witness ==
    /\ runPc = "returned" /\ runErr = "nil"
    /\ healthzShutdown = "error"
    /\ uploadShutdown # "none"

\* Requests whose background resume has failed.
ResumeFailed ==
    {r \in Requests : pc[r] \in {"bgSend", "bgFinishErr", "bgCloseErr", "bgExitErr"}}

\* C14 as stated: when the background resume has failed while Run waits in its
\* select, the error Run returns is that error.
C14_AsyncFailureReturned ==
    [][((\E r \in Requests : pc[r] = "bgSend") /\ runPc = "select" /\ runPc' = "returned")
          => runErr' = "resume"]_vars

\* C14 (amended): when the background resume has failed while Run waits in its
\* select, Run eventually returns an error, that one or the error of a listener
\* received first; after a failed resume Run never enters the completion branch
\* and never returns nil, and no processor is started again.
C14_AsyncFailureFatal ==
    /\ ((\E r \in Requests : pc[r] = "bgSend") /\ runPc = "select")
          ~> (runPc = "returned" /\ runErr \in {"resume", "serve"})
    /\ [](ResumeFailed # {} =>
             /\ runPc \notin {"shutdownHealthz", "shutdownUpload"}
             /\ runPc = "returned" => runErr # "nil")
    /\ [][ResumeFailed # {} => \A r \in Requests : ~ProcessorStarts(r)]_vars

C14_Witness ==
    /\ \E r \in Requests : pc[r] = "bgExitErr"
    /\ runPc = "returned" /\ runErr = "resume"

\* C15 (completion leads to shutdown): when the processing of an admitted
\* upload has completed successfully while Run waits in its select, then,
\* unless a listener fails, doneChan is closed and Run shuts both listeners
\* down and returns nil.
C15_CompletionLeadsToShutdown ==
    (/\ runPc = "select"
     /\ \E r \in Requests : \/ pc[r] = "procNil" /\ ~IsAsync(r)
                            \/ pc[r] = "bgFinishOk")
       ~> \/ /\ doneChanClosed
             /\ runPc = "returned" /\ runErr = "nil"
             /\ healthzShutdown # "none" /\ uploadShutdown # "none"
          \/ runErr = "serve"

C15_Witness ==
    /\ \E r \in Requests : pc[r] = "bgExitOk"
    /\ doneChanClosed
    /\ runPc = "returned" /\ runErr = "nil"
    /\ healthzShutdown # "none" /\ uploadShutdown # "none"

\* C16 as stated: no access of the phase flags or of preallocationApplied is
\* made without holding the mutex.
C16_LockDiscipline == unguarded = {}

\* Requests for which a processor is at work on the destination.
ProcessorActive ==
    {r \in Requests : pc[r] \in {"running", "runningClone", "bgResume"}}

\* C17 (exclusive use of the destination): at most one processor is at work at
\* any time, and while a processor is at work, the background resume included,
\* no processor is started.
C17_ExclusiveDestination ==
    /\ [](Cardinality(ProcessorActive) <= 1)
    /\ [][ProcessorActive # {} => \A r \in Requests : ~ProcessorStarts(r)]_vars

C17_Witness ==
    \E r1, r2 \in Requests :
       /\ pc[r1] = "bgResume" /\ processing
       /\ pc[r2] = "rejected" /\ status[r2] = StatusServiceUnavailable

\* C18 (done signal closed at most once): doneChan is never closed a second
\* time, stays closed, and is closed only when done is true.
C18_DoneChanClosedOnce ==
    /\ [](/\ ~closePanic
          /\ doneChanClosed => done)
    /\ [][doneChanClosed => doneChanClosed' /\ ~closePanic']_vars

C18_Witness ==
    /\ doneChanClosed /\ done /\ ~closePanic
    /\ \E r \in Requests : pc[r] = "succeeded"
    /\ \E r \in Requests : pc[r] = "rejected" /\ status[r] = StatusConflict

\* C19 (preallocation recorded before completion): when doneChan is closed,
\* preallocationApplied is the outcome the processor reported, and from then on
\* neither changes; so it is when Run returns through the completion branch.
C19_PreallocationBeforeDone ==
    /\ [](doneChanClosed => done /\ preallocationApplied = reported)
    /\ []((runPc = "returned" /\ uploadShutdown # "none") =>
             preallocationApplied = reported)
    /\ [][doneChanClosed => UNCHANGED <<preallocationApplied, reported>>]_vars

C19_Witness ==
    /\ doneChanClosed /\ preallocationApplied /\ reported
    /\ runPc = "returned" /\ uploadShutdown # "none"

\* C20 as stated: a request whose body extraction fails is answered 400 and
\* ends there: no processor is invoked for it and the session is Idle again.
C20_BodyExtractionFailure ==
    [][\A r \in Requests, body \in Bodies, ctype \in ContentTypes :
         (ircErr(route[r], body) /\ invokeProcessor(r, body, ctype)) =>
            /\ status'[r] = StatusBadRequest
            /\ pc'[r] = "failed"
            /\ ~uploading' /\ ~processing' /\ ~done']_vars

====
